---- MODULE Spec2Model ----
(***************************************************************************)
(* Model of src/__main__.py: class Timeout, a timeout guard built on the   *)
(* process-wide SIGALRM timer (signal.signal / signal.alarm), usable as a  *)
(* context manager, as a decorator and as an async context manager.        *)
(*                                                                         *)
(* Time is counted in whole seconds, the unit of signal.alarm.  The        *)
(* statements of __enter__, __exit__ and wrapped take no measurable time;  *)
(* time passes while the guarded work sleeps and while the caller is       *)
(* between two activations.  When the timer elapses the signal is tripped  *)
(* and Python runs handler_alarm in the main thread at one of the next     *)
(* bytecode boundaries, before any further time passes: which boundary is  *)
(* a nondeterministic choice.  A work duration equal to the timer duration *)
(* therefore stands for the race between the end of the work and the       *)
(* signal.                                                                 *)
(***************************************************************************)
EXTENDS Integers, Sequences, FiniteSets, TLC

\* ---- bounds ----
MaxSec == 2
MaxWork == 3
MaxCalls == 2
MaxTasks == 2

\* ---- values ----
None == "None"
Ok == "Ok!"
TimeoutException == "TimeoutException"
WorkError == "WorkError"

NoExc == [type |-> None, sec |-> 0]
NoHandler == [timer_sec |-> 0, is_rising |-> FALSE]

\* Timeout.__init__: a guard is its configuration (timer_sec, is_rising)
Timeout == [timer_sec : 1..MaxSec, is_rising : BOOLEAN]

Modes == {"cm", "dec", "async"}
\* the guarded work returns, raises its own error, raises
\* Timeout.TimeoutException itself, or never ends by itself
Kinds == {"ok", "err", "texc", "loop"}

NoAct == [mode |-> None, self |-> NoHandler, w |-> 0, kind |-> None, n |-> 0, clean |-> TRUE]
NoGhost == [sched |-> 0, cancelled |-> 0, delivered |-> 0, completed |-> FALSE,
            failed |-> FALSE, exited |-> FALSE, armedSec |-> 0,
            slowpoke |-> FALSE, where |-> None, replaced |-> FALSE,
            noop |-> FALSE, innerNormal |-> FALSE, nested |-> FALSE]

\* no activation is suspended around the one in progress
NoFrame == [act |-> NoAct, workLeft |-> 0, ghost |-> NoGhost]

VARIABLES
    handler,    \* the guard whose handler_alarm is installed for SIGALRM
    alarm,      \* seconds left on the process-wide alarm, 0 = none pending
    tripped,    \* SIGALRM received, handler_alarm not yet run
    pc,         \* position of the main thread
    act,        \* the activation in progress
    workLeft,   \* seconds of guarded work still to run
    exc,        \* exception in flight
    res,        \* the caller's result variable / the wrapped return value
    tasks,      \* async adapter: state of each task of the guarded group
    ghost,      \* history of the activation in progress
    calls,      \* activations started so far
    prevEnd,    \* how the previous activation ended
    last,       \* what the caller observed of the last finished activation
    stray,      \* an expiry was delivered to the caller outside any activation
    outer,      \* the activation whose body entered the one in progress
    armedBy,    \* the guard whose __enter__ armed the pending alarm
    firedFor    \* the guard whose alarm tripped the undelivered signal

vars == <<handler, alarm, tripped, pc, act, workLeft, exc, res, tasks, ghost,
          calls, prevEnd, last, stray, outer, armedBy, firedFor>>

NoOutcome == [act |-> NoAct, result |-> None, raised |-> NoExc,
              ghost |-> NoGhost, tasks |-> <<>>, prevEnd |-> None]

Init ==
    /\ handler = NoHandler
    /\ alarm = 0
    /\ tripped = FALSE
    /\ pc = "idle"
    /\ act = NoAct
    /\ workLeft = 0
    /\ exc = NoExc
    /\ res = None
    /\ tasks = <<>>
    /\ ghost = NoGhost
    /\ calls = 0
    /\ prevEnd = None
    /\ last = NoOutcome
    /\ stray = FALSE
    /\ outer = NoFrame
    /\ armedBy = NoHandler
    /\ firedFor = NoHandler


\* ---- the code's decisions, as operators ----

\* handler_alarm: the exception the installed handler raises
handler_alarm(self) == [type |-> TimeoutException, sec |-> self.timer_sec]

\* __enter__, line 46: the seconds the alarm is armed with
enter_alarm_sec(self) == self.timer_sec

\* __exit__, line 51: the branch that cancels the alarm
exit_disarms(exc_type) == exc_type = None

\* __exit__, line 54: the branch that takes the exception for the expiry
exit_is_timeout(exc_type) == exc_type = TimeoutException

\* a slip: __exit__ returns nothing in the TimeoutException branch
exit_return_nothing(self, exc_type) == FALSE

\* __exit__: truth of the value returned (TRUE makes `with` swallow exc)
exit_return(self, exc_type) ==
    IF exit_disarms(exc_type) THEN FALSE
    ELSE IF exit_is_timeout(exc_type) THEN ~self.is_rising
    ELSE FALSE

\* wrapped, line 63: the except clause catches only TimeoutException
wrapped_catches(exc_type) == exc_type = TimeoutException

\* a slip: the except clause of wrapped never re-raises
wrapped_reraises_never(self) == FALSE

\* wrapped, lines 64-65: re-raise under is_rising, else fall through (None)
wrapped_reraises(self) == self.is_rising

\* how an activation ended, as the next activation's history
EndOf(g, raised) ==
    IF g.delivered > 0 THEN "timedout"
    ELSE IF raised.type = WorkError THEN "raised"
    ELSE "completed"

\* control returns into the body of the suspended activation: the body goes
\* on after a normal return, and an exception of the inner activation is
\* raised in the body, so the with statement calls __exit__ with it
Resume(raised, g) ==
    /\ act' = outer.act
    /\ workLeft' = outer.workLeft
    /\ ghost' = [outer.ghost EXCEPT
                    !.innerNormal = (g.exited /\ ~g.slowpoke /\ raised = NoExc),
                    !.nested = TRUE,
                    !.failed = (@ \/ raised.type = WorkError)]
    /\ exc' = raised
    /\ pc' = IF raised = NoExc THEN "work" ELSE "exit"
    /\ res' = None
    /\ tasks' = <<>>
    /\ outer' = NoFrame
    /\ UNCHANGED <<last, prevEnd>>

\* control returns to the caller: it holds `result` and sees `raised`
Finish(result, raised, g) ==
    IF outer # NoFrame THEN Resume(raised, g)
    ELSE
    /\ last' = [act |-> act, result |-> result, raised |-> raised,
                ghost |-> g, tasks |-> tasks,
                prevEnd |-> prevEnd]
    /\ prevEnd' = EndOf(g, raised)
    /\ pc' = "idle"
    /\ act' = NoAct
    /\ workLeft' = 0
    /\ exc' = NoExc
    /\ res' = None
    /\ tasks' = <<>>
    /\ ghost' = NoGhost
    /\ outer' = NoFrame

\* an exception leaves `with self` (or __enter__) unswallowed: the scoped
\* block and the async block hand it to their caller, wrapped to its except
Escape(e, g) ==
    IF act.mode = "dec"
    THEN /\ pc' = "except"
         /\ exc' = e
         /\ ghost' = g
         /\ UNCHANGED <<act, workLeft, res, tasks, prevEnd, last, outer>>
    ELSE Finish(res, e, g)

\* ---- the caller ----

\* the caller activates a guard: `with Timeout(..)`, a decorated call, or
\* `async with Timeout(..)` around n tasks
Activate(mode, self, w, kind, n) ==
    /\ pc = "idle"
    /\ calls < MaxCalls
    /\ pc' = "enter"
    /\ act' = [mode |-> mode, self |-> self, w |-> w, kind |-> kind, n |-> n,
               clean |-> ~tripped]
    /\ workLeft' = w
    /\ exc' = NoExc
    /\ res' = None
    /\ tasks' = <<>>
    /\ ghost' = NoGhost
    /\ calls' = calls + 1
    /\ last' = NoOutcome
    /\ UNCHANGED <<handler, alarm, tripped, prevEnd, stray, outer, armedBy, firedFor>>

\* ---- __enter__ ----

\* line 45: signal.signal(SIGALRM, self.handler_alarm)
enter_signal ==
    /\ pc = "enter"
    /\ handler' = act.self
    /\ pc' = "enter_alarm"
    /\ UNCHANGED <<alarm, tripped, act, workLeft, exc, res, tasks, ghost,
                   calls, prevEnd, last, stray, outer, armedBy, firedFor>>

\* line 46: signal.alarm(self.timer_sec) replaces any pending alarm
enter_alarm ==
    /\ pc = "enter_alarm"
    /\ alarm' = enter_alarm_sec(act.self)
    /\ armedBy' = act.self
    /\ ghost' = [ghost EXCEPT !.sched = @ + 1,
                              !.armedSec = enter_alarm_sec(act.self),
                              !.replaced = (alarm > 0)]
    /\ pc' = "enter_log"
    /\ UNCHANGED <<handler, tripped, act, workLeft, exc, res, tasks,
                   calls, prevEnd, last, stray, outer, firedFor>>

\* line 47: debug(..); a tripped signal is handled before the call is over.
\* The body starts: the async body schedules its n tasks (lines 135-142)
enter_log ==
    /\ pc = "enter_log"
    /\ ~tripped
    /\ pc' = "work"
    /\ tasks' = IF act.mode = "async" THEN [i \in 1..act.n |-> "pending"] ELSE <<>>
    /\ UNCHANGED <<handler, alarm, tripped, act, workLeft, exc, res, ghost,
                   calls, prevEnd, last, stray, outer, armedBy, firedFor>>

\* ---- time ----

\* one second passes, in the sleeping work or in the caller between two
\* activations; an alarm that reaches zero trips the signal
Tick ==
    /\ ~tripped
    /\ \/ pc = "work" /\ workLeft > 0
       \/ pc = "idle" /\ alarm > 0
    /\ workLeft' = IF pc = "work" /\ act.kind # "loop" THEN workLeft - 1 ELSE workLeft
    /\ alarm' = IF alarm > 0 THEN alarm - 1 ELSE 0
    /\ tripped' = (alarm = 1)
    /\ firedFor' = IF alarm = 1 THEN armedBy ELSE firedFor
    /\ armedBy' = IF alarm = 1 THEN NoHandler ELSE armedBy
    /\ UNCHANGED <<handler, pc, act, exc, res, tasks, ghost,
                   calls, prevEnd, last, stray, outer>>


\* ---- the guarded work ----

\* a slip: wrapped calls func inside the with block without returning its
\* value
work_return_dropped ==
    /\ pc = "work"
    /\ act.mode # "async"
    /\ act.kind = "ok"
    /\ workLeft = 0
    /\ res' = IF act.mode = "dec" THEN None ELSE Ok
    /\ ghost' = [ghost EXCEPT !.completed = TRUE]
    /\ pc' = "exit"
    /\ UNCHANGED <<handler, alarm, tripped, act, workLeft, exc, tasks,
                   calls, prevEnd, last, stray, outer, armedBy, firedFor>>

\* the block / the wrapped function runs to its end and yields its value
\* (line 82 `res = foo(..)`, line 62 `return func(..)`)
work_return ==
    /\ pc = "work"
    /\ act.mode # "async"
    /\ act.kind = "ok"
    /\ workLeft = 0
    /\ res' = Ok
    /\ ghost' = [ghost EXCEPT !.completed = TRUE]
    /\ pc' = "exit"
    /\ UNCHANGED <<handler, alarm, tripped, act, workLeft, exc, tasks,
                   calls, prevEnd, last, stray, outer, armedBy, firedFor>>

\* the work raises an error of its own
work_raise ==
    /\ pc = "work"
    /\ act.mode # "async"
    /\ act.kind = "err"
    /\ workLeft = 0
    /\ exc' = [type |-> WorkError, sec |-> 0]
    /\ ghost' = [ghost EXCEPT !.failed = TRUE]
    /\ pc' = "exit"
    /\ UNCHANGED <<handler, alarm, tripped, act, workLeft, res, tasks,
                   calls, prevEnd, last, stray, outer, armedBy, firedFor>>

\* the work raises Timeout.TimeoutException itself (the class is an
\* attribute shared by every guard, lines 31-32)
work_raise_timeout ==
    /\ pc = "work"
    /\ act.mode # "async"
    /\ act.kind = "texc"
    /\ workLeft = 0
    /\ exc' = [type |-> TimeoutException, sec |-> 0]
    /\ pc' = "exit"
    /\ UNCHANGED <<handler, alarm, tripped, act, workLeft, res, tasks, ghost,
                   calls, prevEnd, last, stray, outer, armedBy, firedFor>>

\* the body of the activation in progress activates a guard itself, once:
\* a nested `with Timeout(..)`, or a decorated function called in the body
nest_enter(mode, self, w, kind) ==
    /\ pc = "work"
    /\ act.mode # "async"
    /\ outer = NoFrame
    /\ ~ghost.nested
    /\ calls < MaxCalls
    /\ outer' = [act |-> act, workLeft |-> workLeft, ghost |-> ghost]
    /\ pc' = "enter"
    /\ act' = [mode |-> mode, self |-> self, w |-> w, kind |-> kind, n |-> 0,
               clean |-> ~tripped]
    /\ workLeft' = w
    /\ ghost' = NoGhost
    /\ calls' = calls + 1
    /\ UNCHANGED <<handler, alarm, tripped, exc, res, tasks, prevEnd, last,
                   stray, armedBy, firedFor>>

\* test_async, lines 128-130: task i wakes from its sleep and returns 'Ok!'
async_task_done(i) ==
    /\ pc = "work"
    /\ act.mode = "async"
    /\ workLeft = 0
    /\ tasks[i] = "pending"
    /\ tasks' = [tasks EXCEPT ![i] = "result"]
    /\ UNCHANGED <<handler, alarm, tripped, pc, act, workLeft, exc, res, ghost,
                   calls, prevEnd, last, stray, outer, armedBy, firedFor>>

\* test_async, lines 135-144: asyncio.wait returns once every task is done,
\* so `pending` is empty, nothing is cancelled and res lists the outcomes
async_wait_return ==
    /\ pc = "work"
    /\ act.mode = "async"
    /\ workLeft = 0
    /\ \A i \in 1..act.n : tasks[i] # "pending"
    /\ res' = "Outcomes"
    /\ UNCHANGED tasks
    /\ ghost' = [ghost EXCEPT !.completed = TRUE]
    /\ pc' = "exit"
    /\ UNCHANGED <<handler, alarm, tripped, act, workLeft, exc,
                   calls, prevEnd, last, stray, outer, armedBy, firedFor>>

\* ---- __exit__ (and __aexit__, which calls it) ----

\* a slip: the normal path of __exit__ leaves the alarm as it is
exit_good_keeps ==
    /\ pc = "exit"
    /\ exit_disarms(exc.type)
    /\ ghost' = [ghost EXCEPT !.noop = (alarm = 0 /\ ~tripped)]
    /\ pc' = "exit_log"
    /\ UNCHANGED <<handler, alarm, tripped, act, workLeft, exc, res, tasks,
                   calls, prevEnd, last, stray, outer, armedBy, firedFor>>

\* a slip: the disarm insists that an alarm was pending
\* (`assert signal.alarm(0) > 0`)
exit_good_strict ==
    /\ pc = "exit"
    /\ exit_disarms(exc.type)
    /\ alarm' = 0
    /\ armedBy' = NoHandler
    /\ ghost' = [ghost EXCEPT !.cancelled = IF alarm > 0 THEN @ + 1 ELSE @,
                              !.noop = (alarm = 0 /\ ~tripped)]
    /\ exc' = IF alarm = 0 THEN [type |-> WorkError, sec |-> 0] ELSE exc
    /\ pc' = IF alarm = 0 THEN "except" ELSE "exit_log"
    /\ UNCHANGED <<handler, tripped, act, workLeft, res, tasks,
                   calls, prevEnd, last, stray, outer, firedFor>>

\* lines 51-52: no exception: signal.alarm(0)
exit_good ==
    /\ pc = "exit"
    /\ exit_disarms(exc.type)
    /\ alarm' = 0
    /\ armedBy' = NoHandler
    /\ ghost' = [ghost EXCEPT !.cancelled = IF alarm > 0 THEN @ + 1 ELSE @,
                              !.noop = (alarm = 0 /\ ~tripped)]
    /\ pc' = "exit_log"
    /\ UNCHANGED <<handler, tripped, act, workLeft, exc, res, tasks,
                   calls, prevEnd, last, stray, outer, firedFor>>

\* line 53: debug('Good job!'), then __exit__ returns None: the block ends
\* normally and wrapped returns the value of func
exit_log_good ==
    /\ pc = "exit_log"
    /\ ~tripped
    /\ Finish(res, NoExc, [ghost EXCEPT !.exited = TRUE])
    /\ UNCHANGED <<handler, alarm, tripped, calls, stray, armedBy, firedFor>>

\* lines 54-56: the exception is a TimeoutException: warn, and return
\* `not self.is_rising`; a true value makes the with statement swallow it,
\* and the wrapped function then falls off its end
exit_slowpoke ==
    /\ pc = "exit"
    /\ ~exit_disarms(exc.type)
    /\ exit_is_timeout(exc.type)
    /\ ~tripped
    /\ IF exit_return(act.self, exc.type)
       THEN Finish(IF act.mode = "dec" THEN None ELSE res, NoExc,
                   [ghost EXCEPT !.exited = TRUE, !.slowpoke = TRUE])
       ELSE Escape(exc, [ghost EXCEPT !.exited = TRUE, !.slowpoke = TRUE])
    /\ UNCHANGED <<handler, alarm, tripped, calls, stray, armedBy, firedFor>>

\* any other exception: neither branch runs, __exit__ returns None and the
\* exception goes on
exit_other ==
    /\ pc = "exit"
    /\ ~exit_disarms(exc.type)
    /\ ~exit_is_timeout(exc.type)
    /\ IF exit_return(act.self, exc.type)
       THEN Finish(IF act.mode = "dec" THEN None ELSE res, NoExc,
                   [ghost EXCEPT !.exited = TRUE])
       ELSE Escape(exc, [ghost EXCEPT !.exited = TRUE])
    /\ UNCHANGED <<handler, alarm, tripped, calls, stray, armedBy, firedFor>>

\* ---- wrapped: except Timeout.TimeoutException ----

\* lines 63-65
wrapped_except ==
    /\ pc = "except"
    /\ IF wrapped_catches(exc.type) /\ ~wrapped_reraises(act.self)
       THEN Finish(None, NoExc, ghost)
       ELSE Finish(None, exc, ghost)
    /\ UNCHANGED <<handler, alarm, tripped, calls, stray, armedBy, firedFor>>


\* ---- SIGALRM delivered: Python runs handler_alarm in the main thread ----

\* between two activations: the exception is raised in the caller's code
deliver_idle ==
    /\ pc = "idle"
    /\ tripped
    /\ tripped' = FALSE
    /\ firedFor' = NoHandler
    /\ stray' = TRUE
    /\ UNCHANGED <<handler, alarm, pc, act, workLeft, exc, res, tasks, ghost,
                   calls, prevEnd, last, outer, armedBy>>

\* inside __enter__: the with statement has not been entered, so __exit__
\* is not called
deliver_enter ==
    /\ pc \in {"enter", "enter_alarm", "enter_log"}
    /\ tripped
    /\ tripped' = FALSE
    /\ firedFor' = NoHandler
    /\ Escape(handler_alarm(handler), [ghost EXCEPT !.delivered = @ + 1, !.where = "enter"])
    /\ UNCHANGED <<handler, alarm, calls, stray, armedBy>>

\* a slip: a handler that returns instead of raising; the work goes on
deliver_work_lost ==
    /\ pc = "work"
    /\ act.mode = "async" => \A i \in 1..act.n : tasks[i] # "pending"
    /\ tripped
    /\ tripped' = FALSE
    /\ firedFor' = NoHandler
    /\ UNCHANGED <<handler, alarm, pc, act, workLeft, exc, res, tasks, ghost,
                   calls, prevEnd, last, stray, outer, armedBy>>

\* inside the guarded body: the with statement calls __exit__ with it
deliver_work ==
    /\ pc = "work"
    /\ act.mode = "async" => \A i \in 1..act.n : tasks[i] # "pending"
    /\ tripped
    /\ tripped' = FALSE
    /\ firedFor' = NoHandler
    /\ exc' = handler_alarm(handler)
    /\ ghost' = [ghost EXCEPT !.delivered = @ + 1, !.where = "work"]
    /\ pc' = "exit"
    /\ UNCHANGED <<handler, alarm, act, workLeft, res, tasks,
                   calls, prevEnd, last, stray, outer, armedBy>>

\* async adapter, tasks still pending: the main thread is in the event loop,
\* the exception leaves run_until_complete (lines 149-152) and no coroutine,
\* so __aexit__ never runs and no task is cancelled
deliver_loop ==
    /\ pc = "work"
    /\ act.mode = "async"
    /\ \E i \in 1..act.n : tasks[i] = "pending"
    /\ tripped
    /\ tripped' = FALSE
    /\ firedFor' = NoHandler
    /\ Finish(res, handler_alarm(handler), [ghost EXCEPT !.delivered = @ + 1, !.where = "loop"])
    /\ UNCHANGED <<handler, alarm, calls, stray, armedBy>>

\* async adapter, while task i runs its last step: the task ends with the
\* exception
deliver_task(i) ==
    /\ pc = "work"
    /\ act.mode = "async"
    /\ workLeft = 0
    /\ tasks[i] = "pending"
    /\ tripped
    /\ tripped' = FALSE
    /\ firedFor' = NoHandler
    /\ tasks' = [tasks EXCEPT ![i] = "exception"]
    /\ ghost' = [ghost EXCEPT !.delivered = @ + 1, !.where = "task"]
    /\ UNCHANGED <<handler, alarm, pc, act, workLeft, exc, res,
                   calls, prevEnd, last, stray, outer, armedBy>>

\* inside __exit__: the exception leaves __exit__ in place of any other
deliver_exit ==
    /\ pc \in {"exit", "exit_log"}
    /\ tripped
    /\ tripped' = FALSE
    /\ firedFor' = NoHandler
    /\ Escape(handler_alarm(handler), [ghost EXCEPT !.delivered = @ + 1, !.where = "exit"])
    /\ UNCHANGED <<handler, alarm, calls, stray, armedBy>>

\* ---- specification ----

Next ==
    \/ \E mode \in {"cm", "dec"}, self \in Timeout, w \in 0..MaxWork,
          kind \in Kinds \ {"loop"} :
          Activate(mode, self, w, kind, 0)
    \/ \E mode \in {"cm", "dec"}, self \in Timeout :
          Activate(mode, self, 1, "loop", 0)
    \/ \E self \in Timeout, w \in 0..MaxWork, n \in 1..MaxTasks :
          Activate("async", self, w, "ok", n)
    \/ enter_signal
    \/ enter_alarm
    \/ enter_log
    \/ Tick
    \/ work_return
    \/ work_raise
    \/ work_raise_timeout
    \/ \E i \in DOMAIN tasks : async_task_done(i)
    \/ async_wait_return
    \/ exit_good
    \/ exit_log_good
    \/ exit_slowpoke
    \/ exit_other
    \/ wrapped_except
    \/ deliver_idle
    \/ deliver_enter
    \/ deliver_work
    \/ deliver_loop
    \/ \E i \in DOMAIN tasks : deliver_task(i)
    \/ deliver_exit

Spec == Init /\ [][Next]_vars

\* one activation by the caller, whose body may activate a guard in turn
NextNest ==
    \/ \E mode \in {"cm", "dec"}, self \in Timeout, w \in 0..MaxWork,
          kind \in Kinds \ {"loop"} :
          (calls = 0 /\ Activate(mode, self, w, kind, 0))
    \/ \E mode \in {"cm", "dec"}, self \in Timeout :
          (calls = 0 /\ Activate(mode, self, 1, "loop", 0))
    \/ \E self \in Timeout, w \in 0..MaxWork, n \in 1..MaxTasks :
          (calls = 0 /\ Activate("async", self, w, "ok", n))
    \/ enter_signal
    \/ enter_alarm
    \/ enter_log
    \/ Tick
    \/ work_return
    \/ work_raise
    \/ work_raise_timeout
    \/ \E i \in DOMAIN tasks : async_task_done(i)
    \/ async_wait_return
    \/ exit_good
    \/ exit_log_good
    \/ exit_slowpoke
    \/ exit_other
    \/ wrapped_except
    \/ deliver_idle
    \/ deliver_enter
    \/ deliver_work
    \/ deliver_loop
    \/ \E i \in DOMAIN tasks : deliver_task(i)
    \/ deliver_exit
    \/ \E mode \in {"cm", "dec"}, self \in Timeout, w \in 0..MaxWork,
          kind \in Kinds \ {"loop"} :
          nest_enter(mode, self, w, kind)

SpecNest == Init /\ [][NextNest]_vars

\* one activation by the caller and the time after it; a behaviour goes on
\* while a second can pass, a tripped signal can be delivered or the main
\* thread can run its next statement
NextOne ==
    \/ \E mode \in {"cm", "dec"}, self \in Timeout, w \in 0..MaxWork,
          kind \in Kinds \ {"loop"} :
          (calls = 0 /\ Activate(mode, self, w, kind, 0))
    \/ \E mode \in {"cm", "dec"}, self \in Timeout :
          (calls = 0 /\ Activate(mode, self, 1, "loop", 0))
    \/ \E self \in Timeout, w \in 0..MaxWork, n \in 1..MaxTasks :
          (calls = 0 /\ Activate("async", self, w, "ok", n))
    \/ enter_signal
    \/ enter_alarm
    \/ enter_log
    \/ Tick
    \/ work_return
    \/ work_raise
    \/ work_raise_timeout
    \/ \E i \in DOMAIN tasks : async_task_done(i)
    \/ async_wait_return
    \/ exit_good
    \/ exit_log_good
    \/ exit_slowpoke
    \/ exit_other
    \/ wrapped_except
    \/ deliver_idle
    \/ deliver_work
    \/ deliver_loop
    \/ \E i \in DOMAIN tasks : deliver_task(i)
    \/ deliver_exit

SpecLive == Init /\ [][NextOne]_vars /\ WF_vars(NextOne)

TypeOK ==
    /\ handler \in Timeout \cup {NoHandler}
    /\ alarm \in 0..MaxSec
    /\ tripped \in BOOLEAN
    /\ pc \in {"idle", "enter", "enter_alarm", "enter_log", "work", "exit",
               "exit_log", "except"}
    /\ workLeft \in 0..MaxWork
    /\ calls \in 0..MaxCalls


\* ---- what the caller observed of the activation that just finished ----

Finished == pc = "idle" /\ last.act.mode # None
Sync == last.act.mode \in {"cm", "dec"}
\* no expiry left by an earlier activation was still undelivered at entry
Clean == last.act.clean
Suppress == ~last.act.self.is_rising
Propagate == last.act.self.is_rising
Early == last.act.w < last.act.self.timer_sec
Late == last.act.w > last.act.self.timer_sec
Expired == last.raised.type = TimeoutException

\* C1: work that ends before the deadline (w < d): in the scoped block and
\* the decorator, under both policies, the guard disarms (the alarm is
\* cancelled, nothing is delivered) and the caller gets the work's own result
\* and no exception.
C1_EarlyWorkKeepsResult ==
    (Finished /\ Sync /\ Clean /\ last.act.kind = "ok" /\ Early)
        => /\ last.result = Ok
           /\ last.raised = NoExc
           /\ last.ghost.cancelled = 1
           /\ last.ghost.delivered = 0

C1_Witness ==
    /\ Finished /\ Clean /\ Early
    /\ last.act.mode = "dec" /\ last.act.kind = "ok" /\ Propagate
    /\ last.act.w > 0
    /\ last.result = Ok

\* C2: work that would outlast the deadline (w > d) under SUPPRESS: the
\* caller gets None and sees no TimeoutException.
C2_LateWorkSuppressedYieldsNone ==
    (Finished /\ Sync /\ Clean /\ Late /\ Suppress)
        => /\ last.result = None
           /\ last.raised = NoExc

C2_Witness ==
    /\ Finished /\ Clean /\ Late /\ Suppress
    /\ last.act.mode = "cm"
    /\ last.ghost.delivered = 1
    /\ last.result = None /\ last.raised = NoExc

\* C3: work that would outlast the deadline (w > d) under PROPAGATE: the
\* caller gets TimeoutException, from the scoped block and from the decorated
\* call, and holds no result of the work.
C3_LateWorkPropagatedRaises ==
    (Finished /\ Sync /\ Clean /\ Late /\ Propagate)
        => /\ Expired
           /\ last.raised.sec = last.act.self.timer_sec
           /\ last.result = None

C3_Witness ==
    /\ Finished /\ Clean /\ Late /\ Propagate
    /\ last.act.mode = "dec"
    /\ Expired /\ last.result = None


\* C4: under SUPPRESS no TimeoutException reaches the code that activated
\* the guard, wherever the signal is delivered (in __enter__, in the work, in
\* __exit__).
C4_SuppressNeverEscapes ==
    (Finished /\ Sync /\ Clean /\ Suppress) => ~Expired

\* C5: an error raised by the work itself reaches the caller unchanged: never
\* swallowed, never replaced by a TimeoutException, also when the deadline
\* elapses while the error passes through __exit__.
C5_WorkErrorUnchanged ==
    (Finished /\ Sync /\ Clean /\ last.ghost.failed)
        => last.raised = [type |-> WorkError, sec |-> 0]

\* C6: while no activation is in progress no expiry is pending on the
\* process-wide timer (no alarm armed, no signal tripped), and none is
\* delivered to the code that runs after an activation.
C6_NoExpiryPendingWhenIdle ==
    pc = "idle" => (alarm = 0 /\ ~tripped /\ ~stray)

\* C7: within one activation the completion of the work and the delivery of
\* the expiry exclude each other: when the work completed, the caller holds
\* its result and sees neither a TimeoutException nor a discarded result.
C7_CompletionExcludesExpiry ==
    (Finished /\ Sync /\ Clean /\ last.ghost.completed)
        => /\ last.ghost.delivered = 0
           /\ last.result = Ok
           /\ ~Expired

\* C8: an activation of the scoped block schedules exactly one expiry, and
\* when it has exited that expiry was either cancelled or delivered, exactly
\* one of the two.
C8_OneExpiryCancelledOrDelivered ==
    (Finished /\ last.act.mode = "cm" /\ Clean)
        => /\ last.ghost.sched = 1
           /\ last.ghost.cancelled + last.ghost.delivered = 1

\* C9: async adapter: when the deadline elapses with the tasks unfinished,
\* every task is cancelled, the block exits through __aexit__ and its caller
\* sees the tasks marked cancelled and no TimeoutException.
C9_AsyncExpiryCancelsTasks ==
    (Finished /\ last.act.mode = "async" /\ Clean /\ Late /\ last.ghost.delivered > 0)
        => /\ \A i \in DOMAIN last.tasks : last.tasks[i] = "cancelled"
           /\ last.ghost.exited
           /\ ~Expired

\* the outcome that the work and the duration of the call alone decide
OwnOutcome(a) ==
    IF a.w < a.self.timer_sec
    THEN IF a.kind = "ok" THEN [result |-> Ok, raised |-> None]
         ELSE [result |-> None, raised |-> WorkError]
    ELSE IF a.self.is_rising THEN [result |-> None, raised |-> TimeoutException]
         ELSE [result |-> None, raised |-> None]

\* C10: in a sequence of calls each call is armed with its full duration,
\* and its outcome is decided by its own work against the duration, however
\* the earlier calls ended.
C10_OutcomeIndependentOfEarlierCalls ==
    /\ pc = "enter_log" => alarm = act.self.timer_sec
    /\ (Finished /\ Sync /\ last.act.kind \in {"ok", "err"}
           /\ last.act.w # last.act.self.timer_sec)
          => [result |-> last.result, raised |-> last.raised.type] = OwnOutcome(last.act)


\* C11: disarming is idempotent: when __exit__ disarms while no alarm is
\* pending and no signal is tripped (the expiry was already delivered or
\* already cancelled), the step changes nothing of the timer, raises no
\* exception and delivers nothing.
C11_DisarmIdempotent ==
    [][(pc = "exit" /\ exc = NoExc /\ alarm = 0 /\ ~tripped)
          => /\ pc' = "exit_log"
             /\ alarm' = 0
             /\ ~tripped'
             /\ handler' = handler
             /\ exc' = NoExc
             /\ ghost'.delivered = ghost.delivered
             /\ ghost'.cancelled = ghost.cancelled
             /\ stray' = stray]_vars

C11_Witness ==
    /\ pc = "exit_log"
    /\ ghost.noop
    /\ ghost.innerNormal
    /\ ghost.sched = 1 /\ ghost.cancelled = 0 /\ ghost.delivered = 0


\* C12: a guard takes the expired exit path (the TimeoutException branch of
\* __exit__) only if an expiry was delivered during its activation; a
\* TimeoutException raised by the work itself is not taken for the expiry.
C12_ExpiredPathOnlyOnOwnExpiry ==
    (Finished /\ last.ghost.slowpoke) => last.ghost.delivered > 0


\* C13: a single, non-nested activation whose work never completes but can
\* be interrupted: the expiry is eventually delivered and the activation
\* eventually exits.
C13_LoopWorkEventuallyExpires ==
    (pc = "work" /\ act.kind = "loop" /\ calls = 1)
        ~> (Finished /\ last.act.kind = "loop" /\ last.ghost.delivered > 0)

C13_Witness ==
    /\ Finished
    /\ calls = 1
    /\ last.act.kind = "loop"
    /\ last.ghost.delivered = 1
    /\ last.ghost.where = "work"
    /\ last.ghost.slowpoke
    /\ alarm = 0


\* what the caller of an activation observes: the type of the exception it
\* sees, and the result it holds when it sees none
Observed(o) ==
    [raised |-> o.raised.type,
     result |-> IF o.raised.type = None THEN o.result ELSE None]

\* the scoped block (`with Timeout(..)`, lines 41-56 and 81-83) as a function
\* of the guard, the work and the point where the signal was delivered: an
\* exception raised by the handler inside __enter__ or __exit__ leaves the
\* with statement as it is; otherwise __exit__ is called with the exception
\* in flight in the body and its return value decides
ScopedOutcome(a, g) ==
    LET inflight == IF g.where = "work" THEN TimeoutException
                    ELSE IF g.completed THEN None
                    ELSE IF a.kind = "err" THEN WorkError
                    ELSE IF a.kind = "texc" THEN TimeoutException
                    ELSE None
        raised == IF g.where \in {"enter", "exit"} THEN TimeoutException
                  ELSE IF exit_return(a.self, inflight) THEN None
                  ELSE inflight
    IN  [raised |-> raised,
         result |-> IF raised = None /\ g.completed THEN Ok ELSE None]

\* every scoped block of the model ends as ScopedOutcome says
ScopedOutcomeIsExact ==
    (Finished /\ last.act.mode = "cm")
        => Observed(last) = ScopedOutcome(last.act, last.ghost)

\* C14: for the same duration, policy, work and signal-delivery point, a
\* decorated call gives its caller what the scoped block gives: the same
\* result and the same presence or absence of TimeoutException.
C14_DecoratorSameAsScopedBlock ==
    (Finished /\ last.act.mode = "dec")
        => Observed(last) = ScopedOutcome(last.act, last.ghost)


\* C15: every TimeoutException the handler raises carries the timer_sec of
\* the guard whose alarm expired, for every sequence of activations (also
\* when an earlier activation left its alarm pending).
C15_ExceptionCarriesOwnDuration ==
    [][(tripped /\ ~tripped' /\ pc # "idle" /\ act.mode # "async")
          => LET e == IF pc' = "idle" THEN last'.raised ELSE exc'
             IN  /\ e.type = TimeoutException
                 /\ e.sec = firedFor.timer_sec]_vars


\* the armed alarm alone: outside the two statements of __enter__ it is the
\* alarm of the guard whose handler is installed, and the signal.alarm call of
\* __enter__ replaces a pending alarm by the entering guard's timer_sec
ArmedAlarmOfLastEntered ==
    /\ [](alarm > 0 /\ pc # "enter_alarm"
            => armedBy = handler /\ alarm <= handler.timer_sec)
    /\ [][(pc = "enter_alarm" /\ tripped' = tripped)
            => /\ handler = act.self /\ handler' = handler
               /\ armedBy' = act.self
               /\ alarm' = act.self.timer_sec]_vars

\* C16: at every moment at most one expiry is pending (an armed alarm, or a
\* signal that has fired and is not handled yet), and outside the two
\* statements of __enter__ it belongs to the guard entered last, whose
\* handler is installed: entering replaces whatever was pending before.
C16_OnePendingOfLastEntered ==
    /\ ~(tripped /\ alarm > 0)
    /\ (alarm > 0 /\ pc # "enter_alarm") => armedBy = handler
    /\ (tripped /\ pc # "enter_alarm") => firedFor = handler


\* C17: when a guard is entered inside the body of another and the inner
\* activation exits normally, its signal.alarm(0) cancels the only alarm:
\* for the rest of the outer activation no alarm is pending, nothing is
\* delivered, and the outer work runs on uninterrupted past its deadline.
C17_InnerNormalExitDisarmsOuter ==
    /\ (outer = NoFrame /\ ghost.innerNormal)
          => (alarm = 0 /\ ~tripped /\ ghost.delivered = 0
              /\ exc # handler_alarm(handler))
    /\ (Finished /\ last.ghost.innerNormal)
          => /\ last.ghost.delivered = 0
             /\ last.act.kind # "texc" => ~Expired
             /\ last.act.kind = "ok" => last.result = Ok

C17_Witness ==
    /\ Finished
    /\ last.ghost.innerNormal
    /\ Late
    /\ last.act.kind = "ok"
    /\ last.ghost.completed
    /\ last.result = Ok
    /\ last.ghost.delivered = 0

====
